---- MODULE Spec2Model ----
(***************************************************************************)
(* Group-sparse covariance solver (nilearn/group_sparse_covariance.py).    *)
(*                                                                         *)
(* One call of group_sparse_covariance is modelled as a state machine: the *)
(* arguments are chosen in Init, and each action is one step of the        *)
(* function body (validation, empirical_covariances, initialisation, the   *)
(* sweep loop with its excluded-index steps, the cost evaluation and the   *)
(* return).                                                                *)
(*                                                                         *)
(* Numbers are exact rationals <<numerator, denominator>> (denominator >   *)
(* 0, lowest terms).  Arrays are stored task-major: the numpy element      *)
(* omega[i, j, k] is omega[k][i][j] here, with 1-based indices.            *)
(***************************************************************************)
EXTENDS Integers, Sequences, FiniteSets, TLC

(***************************************************************************)
(* Exact rational arithmetic.                                              *)
(***************************************************************************)
Abs(a) == IF a < 0 THEN -a ELSE a

RECURSIVE GCD(_, _)
GCD(a, b) == IF b = 0 THEN a ELSE GCD(b, a % b)

Rat(n, d) ==
    LET g == GCD(Abs(n), Abs(d))
        s == IF d < 0 THEN -1 ELSE 1
    IN  <<s * (n \div g), s * (d \div g)>>

RInt(n) == <<n, 1>>

RZero == <<0, 1>>

ROne == <<1, 1>>

RNeg(a) == <<-a[1], a[2]>>

RMul(a, b) ==
    LET g1 == GCD(Abs(a[1]), b[2])
        g2 == GCD(Abs(b[1]), a[2])
    IN  <<(a[1] \div g1) * (b[1] \div g2), (a[2] \div g2) * (b[2] \div g1)>>

RInv(a) == IF a[1] < 0 THEN <<-a[2], -a[1]>> ELSE <<a[2], a[1]>>

RDiv(a, b) == RMul(a, RInv(b))

RAdd(a, b) ==
    LET g == GCD(a[2], b[2])
    IN  Rat(a[1] * (b[2] \div g) + b[1] * (a[2] \div g), (a[2] \div g) * b[2])

RSub(a, b) == RAdd(a, RNeg(b))

RLt(a, b) == RSub(a, b)[1] < 0

RLe(a, b) == RSub(a, b)[1] <= 0

\* The integer square root, by bisection of lo..hi (46340 is the largest
\* integer whose square is below 2^31).
RECURSIVE ISqrtIn(_, _, _)
ISqrtIn(n, lo, hi) ==
    IF lo = hi THEN lo
    ELSE LET mid == (lo + hi + 1) \div 2
         IN  IF mid * mid <= n THEN ISqrtIn(n, mid, hi) ELSE ISqrtIn(n, lo, mid - 1)

ISqrt(n) == ISqrtIn(n, 0, 46340)

\* The exact square root of a rational that is a perfect square.
RSqrt(a) == <<ISqrt(a[1]), ISqrt(a[2])>>

(***************************************************************************)
(* Vectors and matrices of rationals (sequences, and sequences of rows).   *)
(***************************************************************************)
\* An array as a value.  TLC keeps a function constructor unevaluated and
\* evaluates its body at every application; comparing the value with itself
\* makes TLC evaluate it once, entry by entry.
Eval(x) == IF x = x THEN x ELSE x

RECURSIVE RSum(_)
RSum(v) == IF v = <<>> THEN RZero ELSE RAdd(v[1], RSum(Tail(v)))

Dot(a, b) == RSum([i \in 1..Len(a) |-> RMul(a[i], b[i])])

NRows(M) == Len(M)

NCols(M) == IF Len(M) = 0 THEN 0 ELSE Len(M[1])

\* v with its i-th element removed.
Drop(v, i) == [j \in 1..(Len(v) - 1) |-> IF j < i THEN v[j] ELSE v[j + 1]]

\* M with row i and column j removed.
Minor(M, i, j) == Eval(Drop([r \in 1..Len(M) |-> Drop(M[r], j)], i))

RECURSIVE Det(_)
Det(M) ==
    IF Len(M) = 0 THEN ROne
    ELSE RSum([j \in 1..Len(M) |->
                 RMul(IF j % 2 = 1 THEN M[1][j] ELSE RNeg(M[1][j]),
                      Det(Minor(M, 1, j)))])

\* np.linalg.inv of a square non-singular matrix (adjugate over determinant).
Inv(M) ==
    LET d == Det(M)
    IN  Eval([i \in 1..Len(M) |-> [j \in 1..Len(M) |->
            RDiv(IF (i + j) % 2 = 0 THEN Det(Minor(M, j, i))
                                    ELSE RNeg(Det(Minor(M, j, i))), d)]])

MatVec(M, v) == Eval([i \in 1..Len(M) |-> Dot(M[i], v)])

VecMat(v, M) == Eval([j \in 1..NCols(M) |-> Dot(v, [i \in 1..Len(M) |-> M[i][j]])])

(***************************************************************************)
(* The arguments of one call.                                              *)
(*   tasks           [kind, items]: kind "list" is a sequence with a       *)
(*                   length, "iterator" a one-shot iterable without one,   *)
(*                   "scalar" an object without __iter__; items are the    *)
(*                   sample matrices (rows are samples, integer entries).  *)
(*   rho             [type, kind, val]: the Python type of the argument    *)
(*                   and, for a float, whether it is finite ("fin", with   *)
(*                   its value), "nan", "inf" or "-inf".                   *)
(*   tol             [isNone, val]; precisions_init [isNone, stack].       *)
(* The state of the call follows: pc is the position in the function body, *)
(* err the exception that ended it ("none" while there is none), out the   *)
(* lines printed so far and ret the returned tuple (<<>> until the return).*)
(* duality_gap is -1 until the cost evaluator has assigned it.             *)
(* n_steps, n_evals, n_newton and n_sweeps count the submatrix steps       *)
(* started, the cost evaluations, the coordinate updates that took the     *)
(* Newton branch and the sweeps completed.  checked is the set of the      *)
(* internal checks (assert statements and np.testing assertions) evaluated *)
(* so far, by name; allocs[b] is the number of arrays that have been       *)
(* allocated and bound to the workspace name b.                            *)
(***************************************************************************)
VARIABLES tasks, rho, max_iter, tol, verbose, return_costs, debug,
          precisions_init,
          pc, err, emp_covs, n_samples, n_tasks, n_var,
          omega, W, Winv, y, u, n, p, m, remainder,
          costs, duality_gap, out, ret,
          n_steps, n_evals, n_newton, n_sweeps,
          checked, allocs,
          train_tasks, test_tasks, rhos, path_pc, path_err, test_covs,
          path_n_samples, scores, path_precisions_init, calls, path_ret

inputs == <<tasks, rho, max_iter, tol, verbose, return_costs, debug,
            precisions_init>>

built == <<emp_covs, n_samples, n_tasks, n_var>>

work == <<omega, W, Winv, y, u, remainder>>

loop == <<n, p, m>>

report == <<costs, duality_gap, out, ret>>

counters == <<n_steps, n_evals, n_newton, n_sweeps>>

audit == <<checked, allocs>>

\* group_sparse_covariance_path: its arguments and locals, the calls of
\* group_sparse_covariance it has made, in order (rho, warm start and, once
\* the call has returned, the precisions and the score computed from them),
\* and its return value.
\* max_iter, verbose and debug are passed on as they are and are the
\* variables above.
path == <<train_tasks, test_tasks, rhos, path_pc, path_err, test_covs,
          path_n_samples, scores, path_precisions_init, calls, path_ret>>

vars == <<inputs, pc, err, built, work, loop, report, counters, audit, path>>

(***************************************************************************)
(* Bounds of the model.                                                    *)
(***************************************************************************)
\* max_iter is drawn from 0..MaxIter.
MaxIter == 2

(***************************************************************************)
(* Sample matrices the tasks are drawn from.                               *)
(***************************************************************************)
\* 4 centred samples of 2 features: covariance [[3/2, 3/2], [3/2, 2]].
XA == << <<-2, -2>>, <<0, 0>>, <<1, 0>>, <<1, 2>> >>

\* XA shifted by (1, -1) and reordered: same covariance, non-zero means.
XC == << <<1, -1>>, <<-1, -3>>, <<2, 1>>, <<2, -1>> >>

\* XA negated: same covariance.
XN == << <<2, 2>>, <<0, 0>>, <<-1, 0>>, <<-1, -2>> >>

\* 8 samples of 2 uncorrelated features: covariance [[1/2, 0], [0, 1/2]].
XZ == << <<1, 0>>, <<-1, 0>>, <<0, 1>>, <<0, -1>>,
         <<1, 0>>, <<-1, 0>>, <<0, 1>>, <<0, -1>> >>

\* 3 samples of 2 features: covariance [[2/3, -1/3], [-1/3, 2/3]].
XB == << <<1, 0>>, <<-1, 1>>, <<0, -1>> >>

\* 4 samples of 3 features:
\* covariance [[3/2, 3/2, 1/4], [3/2, 2, 0], [1/4, 0, 3/2]].
X3 == << <<-2, -2, -1>>, <<1, 2, -1>>, <<0, 0, 2>>, <<1, 0, 0>> >>

List(items) == [kind |-> "list", items |-> items]

Float(a) == [type |-> "float", kind |-> "fin", val |-> a]

NonFinite(k) == [type |-> "float", kind |-> k, val |-> RZero]

NonNumber(t) == [type |-> t, kind |-> "na", val |-> RZero]

NoInit == [isNone |-> TRUE, stack |-> <<>>]

Stack(s) == [isNone |-> FALSE, stack |-> s]

\* A stack of d copies of the N x N matrix with a on the diagonal, b above
\* it and c below it.
Band(N, d, a, b, c) ==
    [k \in 1..d |-> [i \in 1..N |-> [j \in 1..N |->
        IF i = j THEN a ELSE IF i < j THEN b ELSE c]]]

\* A stack of d copies of the 2 x 2 diagonal matrix with entries a and b.
DiagStack(d, a, b) ==
    [k \in 1..d |-> <<<<a, RZero>>, <<RZero, b>>>>]

\* A stack whose k-th matrix is diagonal with entries k + 1.
Ramp(N, d) ==
    [k \in 1..d |-> [i \in 1..N |-> [j \in 1..N |->
        IF i = j THEN RInt(k + 1) ELSE RZero]]]

(***************************************************************************)
(* Pure functions of the module.                                           *)
(***************************************************************************)
\* symmetrize: M <- (M + M.T) / 2.
symmetrize(M) ==
    Eval([i \in 1..Len(M) |-> [j \in 1..Len(M) |->
        RDiv(RAdd(M[i][j], M[j][i]), RInt(2))]])

\* sklearn's empirical_covariance with assume_centered=False: the biased
\* covariance of the columns of X about their means.
empirical_covariance(X) ==
    LET N == Len(X)
        F == NCols(X)
        mean == Eval([j \in 1..F |-> RDiv(RSum([s \in 1..N |-> RInt(X[s][j])]), RInt(N))])
        dev == Eval([s \in 1..N |-> [j \in 1..F |-> RSub(RInt(X[s][j]), mean[j])]])
    IN  Eval([i \in 1..F |-> [j \in 1..F |->
            RDiv(RSum([s \in 1..N |-> RMul(dev[s][i], dev[s][j])]), RInt(N))]])

\* is_spd (nilearn.testing): symmetric with positive leading principal minors.
is_spd(M) ==
    /\ \A i \in 1..Len(M) : \A j \in 1..Len(M) : M[i][j] = M[j][i]
    /\ \A s \in 1..Len(M) :
          Det([i \in 1..s |-> [j \in 1..s |-> M[i][j]]])[1] > 0

\* One step of a loop body that can raise: an internal check (name is the
\* name of the check) or another statement (name is ""), whether it passes,
\* and the exception raised when it does not.
Step(name, ok, exc) == [name |-> name, ok |-> ok, exc |-> exc]

Check(name, ok) == Step(name, ok, "AssertionError")

RECURSIVE Flatten(_)
Flatten(ss) == IF ss = <<>> THEN <<>> ELSE ss[1] \o Flatten(Tail(ss))

\* The index of the first step that raises, 0 when none does.
FirstBad(steps) ==
    IF \A i \in 1..Len(steps) : steps[i].ok THEN 0
    ELSE CHOOSE i \in 1..Len(steps) :
            ~steps[i].ok /\ \A j \in 1..(i - 1) : steps[j].ok

\* The exception a sequence of steps ends with ("none" when all pass).
Raised(steps) == IF FirstBad(steps) = 0 THEN "none" ELSE steps[FirstBad(steps)].exc

\* The checks evaluated by a sequence of steps: all of them, or those up to
\* the step that raises.
Evaluated(steps) ==
    LET last == IF FirstBad(steps) = 0 THEN Len(steps) ELSE FirstBad(steps)
    IN  {steps[i].name : i \in 1..last} \ {""}

\* empirical_covariances: the exception it raises ("none" when it returns),
\* the values it returns and the checks it evaluates (with debug, "assert
\* is_spd(emp_covs[..., k])" for each task in turn).
empirical_covariances(t, dbg) ==
    LET feats == {NCols(t.items[k]) : k \in 1..Len(t.items)}
        total == RSum([k \in 1..Len(t.items) |-> RInt(Len(t.items[k]))])
        covs == Eval([k \in 1..Len(t.items) |->
                         symmetrize(empirical_covariance(t.items[k]))])
        steps == IF dbg
                 THEN [k \in 1..Len(t.items) |-> Check("emp_covs_spd", is_spd(covs[k]))]
                 ELSE <<>>
        fail(e, cs) == [err |-> e, emp_covs |-> <<>>, n_samples |-> <<>>,
                        n_tasks |-> -1, n_var |-> -1, checks |-> cs]
    IN  IF t.kind = "scalar" THEN fail("ValueError", {})
        ELSE IF Cardinality(feats) > 1 THEN fail("ValueError", {})
        ELSE IF t.kind = "iterator" THEN fail("TypeError", {})
        ELSE IF Len(t.items) = 0 THEN fail("IndexError", {})
        ELSE IF Raised(steps) # "none" THEN fail(Raised(steps), Evaluated(steps))
        ELSE [err |-> "none",
              emp_covs |-> covs,
              n_samples |-> [k \in 1..Len(t.items) |->
                               RDiv(RInt(Len(t.items[k])), total)],
              n_tasks |-> Len(t.items),
              n_var |-> NCols(t.items[1]),
              checks |-> Evaluated(steps)]

RECURSIVE RMax(_)
RMax(S) ==
    LET a == CHOOSE x \in S : TRUE
    IN  IF S = {a} THEN a
        ELSE LET b == RMax(S \ {a}) IN IF RLt(a, b) THEN b ELSE a

\* rho_max squared: the largest, over the positions (i, j), of the sum over
\* the tasks of (n_samples[k] * emp_covs[i, j, k]) ** 2 with the diagonals set
\* to zero.  rho_max itself is its square root (np.sqrt is monotone, so the
\* maximum of the roots is the root of the maximum).
rho_max_sq(covs, ns) ==
    LET N == Len(covs[1])
        A == Eval([k \in 1..Len(covs) |-> [i \in 1..N |-> [j \in 1..N |->
                 IF i = j THEN RZero ELSE RMul(covs[k][i][j], ns[k])]]])
    IN  RMax({RSum([k \in 1..Len(covs) |-> RMul(A[k][i][j], A[k][i][j])])
              : i \in 1..N, j \in 1..N})

\* The validation of rho: isinstance(rho, (int, float)) and rho < 0.  Every
\* comparison with nan is false.
IsIntOrFloat(r) == r.type \in {"int", "float"}

LtZero(r) == r.kind = "-inf" \/ (r.kind = "fin" /\ r.val[1] < 0)

RhoRejected(r) == ~IsIntOrFloat(r) \/ LtZero(r)

\* c2 <= rho, with c2 = sqrt(cc_sum) >= 0 and rho >= 0: compared by squares.
NormLeRho(cc_sum, r) ==
    CASE r.kind = "inf" -> TRUE
      [] r.kind = "nan" -> FALSE
      [] OTHER -> RLe(cc_sum, RMul(r.val, r.val))

\* quad_trust_region: rho2 - sum(cc / (1 + alpha * q) ** 2).
quad_trust_region(alpha, q, cc, rho2) ==
    RSub(rho2, RSum([k \in 1..Len(q) |->
        LET d == RAdd(ROne, RMul(alpha, q[k])) IN RDiv(cc[k], RMul(d, d))]))

\* quad_trust_region_deriv: sum(two_ccq / (1 + alpha * q) ** 3).
quad_trust_region_deriv(alpha, q, two_ccq) ==
    RSum([k \in 1..Len(q) |->
        LET d == RAdd(ROne, RMul(alpha, q[k]))
        IN  RDiv(two_ccq[k], RMul(d, RMul(d, d)))])

\* scipy.optimize.newton(quad_trust_region, 0, fprime=..., maxiter=50) as the
\* solver calls it, by its limit.  With a zero derivative at the start it
\* returns the start.  quad_trust_region is increasing and concave for
\* alpha >= 0 and negative at 0 (c2 > rho), so the iteration rises to the root
\* when there is one; with rho = 0 (or nan) there is none, the steps never
\* fall under the tolerance, and newton raises RuntimeError after maxiter
\* steps.  The root is (sqrt(sum(cc)) / rho - 1) / q when the tasks with
\* c != 0 share one q, which holds for the arguments drawn in Init.
newton(q, two_ccq, cc, r) ==
    LET live == {k \in 1..Len(q) : cc[k] # RZero}
        k0 == CHOOSE k \in live : TRUE
        ratio == RDiv(RSum(cc), RMul(r.val, r.val))
    IN  IF quad_trust_region_deriv(RZero, q, two_ccq) = RZero
        THEN [ok |-> TRUE, alpha |-> RZero]
        ELSE IF r.kind = "nan" \/ r.val = RZero
        THEN [ok |-> FALSE, alpha |-> RZero]
        ELSE [ok |-> TRUE,
              alpha |-> RDiv(RSub(RSqrt(ratio), ROne), q[k0])]

Column(M, j) == [i \in 1..Len(M) |-> M[i][j]]

Outer(a, b) == Eval([i \in 1..Len(a) |-> [j \in 1..Len(b) |-> RMul(a[i], b[j])]])

MatSub(A, B) ==
    Eval([i \in 1..Len(A) |-> [j \in 1..Len(A[i]) |-> RSub(A[i][j], B[i][j])]])

VecSub(a, b) == Eval([i \in 1..Len(a) |-> RSub(a[i], b[i])])

VecScale(a, s) == Eval([i \in 1..Len(a) |-> RMul(a[i], s)])

\* update_vectors(full, n): h is row n of full without column n + 1, v is
\* column n of full without row n + 1 (n is 0-based as in the code).
update_vectors(full, n0) ==
    [h |-> Drop(full[n0 + 1], n0 + 2), v |-> Drop(Column(full, n0 + 1), n0 + 2)]

\* update_submatrix without its last statement, sub[:, n] = v.
update_submatrix_no_column(full, sub, sub_inv, p0) ==
    LET r == p0
        hv == update_vectors(full, p0 - 1)
        coln == Column(sub_inv, r)
        V == VecSub(hv.h, sub[r])
        coln1 == VecScale(coln, RInv(RAdd(ROne, Dot(V, coln))))
        sub_inv1 == MatSub(sub_inv, Outer(coln1, VecMat(V, sub_inv)))
        sub1 == [sub EXCEPT ![r] = hv.h]
        rown == sub_inv1[r]
        U == VecSub(hv.v, Column(sub1, r))
        rown1 == VecScale(rown, RInv(RAdd(ROne, Dot(rown, U))))
        sub_inv2 == MatSub(sub_inv1, Outer(MatVec(sub_inv1, U), rown1))
    IN  Eval([sub |-> sub1, sub_inv |-> sub_inv2])

\* update_submatrix(full, sub, sub_inv, p): the new sub and sub_inv.
update_submatrix(full, sub, sub_inv, p0) ==
    LET r == p0                     \* n = p - 1, as a 1-based index
        hv == update_vectors(full, p0 - 1)
        \* change row
        coln == Column(sub_inv, r)
        V == VecSub(hv.h, sub[r])
        coln1 == VecScale(coln, RInv(RAdd(ROne, Dot(V, coln))))
        sub_inv1 == MatSub(sub_inv, Outer(coln1, VecMat(V, sub_inv)))
        sub1 == [sub EXCEPT ![r] = hv.h]
        \* change column
        rown == sub_inv1[r]
        U == VecSub(hv.v, Column(sub1, r))
        rown1 == VecScale(rown, RInv(RAdd(ROne, Dot(rown, U))))
        sub_inv2 == MatSub(sub_inv1, Outer(MatVec(sub_inv1, U), rown1))
        sub2 == [i \in 1..Len(sub1) |-> [sub1[i] EXCEPT ![r] = hv.v[i]]]
    IN  Eval([sub |-> sub2, sub_inv |-> sub_inv2])

MatMul(A, B) ==
    Eval([i \in 1..Len(A) |-> [j \in 1..NCols(B) |-> Dot(A[i], Column(B, j))]])

Identity(N) == [i \in 1..N |-> [j \in 1..N |-> IF i = j THEN ROne ELSE RZero]]

\* assert_submatrix(full, sub, n): sub is full without row n and column n (n
\* is 0-based as in the code).  The comparison is exact here.
assert_submatrix(full, sub, n0) ==
    sub = [i \in 1..Len(sub) |-> [j \in 1..NCols(sub) |->
              full[IF i <= n0 THEN i ELSE i + 1][IF j <= n0 THEN j ELSE j + 1]]]

\* np.linalg.inv raises LinAlgError on a matrix that is not square or is
\* singular.
Invertible(M) == NRows(M) = NCols(M) /\ Det(M) # RZero

\* The statements that can raise in the loop of the step at p = 0, for the
\* stack w = omega[1:, 1:, :]: for each task the inversion and, with debug,
\* the test that Winv . W is the identity and assert_submatrix.
reset_steps(om, w, dbg) ==
    Flatten([k \in 1..Len(w) |->
        <<Step("", Invertible(w[k]), "LinAlgError")>>
        \o (IF dbg
            THEN <<Check("reset_inverse",
                         Invertible(w[k]) =>
                             MatMul(Inv(w[k]), w[k]) = Identity(Len(w[k]))),
                   Check("reset_submatrix", assert_submatrix(om[k], w[k], 0))>>
            ELSE <<>>)])

\* The internal checks of the step at p > 0 (with debug), r[k] being what
\* update_submatrix has made of W[..., k] and Winv[..., k]: for each task
\* assert_submatrix, the test that Winv . W is the identity, is_spd(W) and
\* is_spd(Winv); then the comparison of omega with its copy omega_orig.
advance_steps(om_orig, om, r, p0, dbg) ==
    IF dbg
    THEN Flatten([k \in 1..Len(r) |->
             <<Check("advance_submatrix", assert_submatrix(om[k], r[k].sub, p0)),
               Check("advance_inverse",
                     MatMul(r[k].sub_inv, r[k].sub) = Identity(Len(r[k].sub))),
               Check("W_spd", is_spd(r[k].sub)),
               Check("Winv_spd", is_spd(r[k].sub_inv))>>])
         \o <<Check("omega_unchanged", om_orig = om)>>
    ELSE <<>>

\* The default initialisation: omega[..., k] = diag(1 / diag(emp_covs[..., k])).
default_omega(covs) ==
    [k \in 1..Len(covs) |-> [i \in 1..Len(covs[k]) |-> [j \in 1..Len(covs[k]) |->
        IF i = j THEN RInv(covs[k][i][i]) ELSE RZero]]]

\* c[:] = - n_samples * (emp_covs[p, p, :] * (h_12 * y_1).sum(axis=1) + u[:, m])
coord_c(ns, covs, winv, yy, uu, p0, m0) ==
    Eval([k \in 1..Len(ns) |->
        LET h_12 == Drop(Column(winv[k], m0 + 1), m0 + 1)
            y_1 == Drop(yy[k], m0 + 1)
        IN  RNeg(RMul(ns[k], RAdd(RMul(covs[k][p0 + 1][p0 + 1], Dot(h_12, y_1)),
                                  uu[k][m0 + 1])))])

\* q = n_samples * emp_covs[p, p, :] * Winv[m, m, :]
coord_q(ns, covs, winv, p0, m0) ==
    Eval([k \in 1..Len(ns) |->
        RMul(ns[k], RMul(covs[k][p0 + 1][p0 + 1], winv[k][m0 + 1][m0 + 1]))])

\* zero_branch with the comparison c2 < rho in place of c2 <= rho.
zero_branch_strict(c, r) ==
    CASE r.kind = "inf" -> TRUE
      [] r.kind = "nan" -> FALSE
      [] OTHER -> RLt(Dot(c, c), RMul(r.val, r.val))

\* The zero branch is taken when c2 <= rho.
zero_branch(c, r) == NormLeRho(Dot(c, c), r)

\* y[:, m] = (alpha * c) / (1. + alpha * q)
coord_x(alpha, c, q) ==
    Eval([k \in 1..Len(c) |->
        RDiv(RMul(alpha, c[k]), RAdd(ROne, RMul(alpha, q[k])))])

\* copy_back without the copy into row p (only column p is written).
copy_back_column_only(om, yy, p0) ==
    [k \in 1..Len(om) |-> [i \in 1..Len(om[k]) |-> [j \in 1..Len(om[k]) |->
        IF i = p0 + 1 /\ j = p0 + 1 THEN om[k][i][j]
        ELSE IF j = p0 + 1 THEN yy[k][IF i < j THEN i ELSE i - 1]
        ELSE om[k][i][j]]]]

\* "Copy back y in omega (column and row)": column p and row p of every
\* omega[..., k], the diagonal entry excepted, are overwritten with y[k].
copy_back(om, yy, p0) ==
    [k \in 1..Len(om) |-> [i \in 1..Len(om[k]) |-> [j \in 1..Len(om[k]) |->
        IF i = p0 + 1 /\ j = p0 + 1 THEN om[k][i][j]
        ELSE IF j = p0 + 1 THEN yy[k][IF i < j THEN i ELSE i - 1]
        ELSE IF i = p0 + 1 THEN yy[k][IF j < i THEN j ELSE j - 1]
        ELSE om[k][i][j]]]]

\* diagonal_entry without the term 1 / emp_covs[p, p, k].
diagonal_entry_no_variance(yk, winvk, covk, p0) == Dot(VecMat(yk, winvk), yk)

\* 1. / emp_covs[p, p, k] + np.dot(np.dot(y[k, :], Winv[..., k]), y[k, :])
diagonal_entry(yk, winvk, covk, p0) ==
    RAdd(RInv(covk[p0 + 1][p0 + 1]), Dot(VecMat(yk, winvk), yk))

\* update_diagonal with the loop one task short (xrange(n_tasks - 1)).
update_diagonal_short_loop(om, yy, winv, covs, p0) ==
    [k \in 1..Len(om) |->
        IF k < Len(om)
        THEN [om[k] EXCEPT ![p0 + 1][p0 + 1] =
                 diagonal_entry(yy[k], winv[k], covs[k], p0)]
        ELSE om[k]]

\* The loop "for k in xrange(n_tasks): omega[p, p, k] = ...".
update_diagonal(om, yy, winv, covs, p0) ==
    Eval([k \in 1..Len(om) |->
        [om[k] EXCEPT ![p0 + 1][p0 + 1] =
            diagonal_entry(yy[k], winv[k], covs[k], p0)]])

\* The internal checks of the loop above (with debug): after the entry of
\* task k is written, "assert(is_spd(omega[..., k]))".
diagonal_steps(om1, dbg) ==
    IF dbg THEN [k \in 1..Len(om1) |-> Check("omega_spd", is_spd(om1[k]))]
    ELSE <<>>

\* costs_wanted without the test of tol.
costs_wanted_no_tol(rc, t) == rc

\* The cost evaluator runs after a sweep when costs are returned or a
\* tolerance is set.
costs_wanted(rc, t) == rc \/ ~t.isNone

\* _group_sparse_covariance_costs, "Compute A(k)": A[..., k] = n_samples[k] *
\* (inv(omega[..., k]) - emp_covs[..., k]).
cost_A(om, covs, ns) ==
    Eval([k \in 1..Len(om) |->
        LET omega_inv == Inv(om[k])
        IN  [i \in 1..Len(om[k]) |-> [j \in 1..Len(om[k]) |->
                RMul(ns[k], RSub(omega_inv[i][j], covs[k][i][j]))]]])

\* "Project A on the set of feasible points": the groups A[i, j, :] whose
\* norm exceeds rho are scaled by rho / norm, and the diagonals set to zero.
\* The norm is compared with rho by squares; its value is exact when it is
\* rational, which holds for the arguments drawn in Init.
cost_project(A, r) ==
    Eval([k \in 1..Len(A) |-> [i \in 1..Len(A[k]) |-> [j \in 1..Len(A[k]) |->
        LET S == RSum([t \in 1..Len(A) |-> RMul(A[t][i][j], A[t][i][j])])
        IN  IF i = j THEN RZero
            ELSE IF r.kind = "fin" /\ RLt(RMul(r.val, r.val), S)
            THEN RMul(A[k][i][j], RDiv(r.val, RSqrt(S)))
            ELSE A[k][i][j]]]])

\* B = emp_covs[..., k] + A[..., k] / n_samples[k]
cost_B(A, covs, ns) ==
    Eval([k \in 1..Len(A) |-> [i \in 1..Len(A[k]) |-> [j \in 1..Len(A[k]) |->
        RAdd(covs[k][i][j], RDiv(A[k][i][j], ns[k]))]]])

\* The statements of _group_sparse_covariance_costs that can raise: for each
\* task the inversion of omega[..., k], "assert is_spd(omega_inv)" (whatever
\* debug is) and, with debug, the test that A[..., k] is symmetric; then,
\* with debug, "assert is_spd(B)" for each task.
cost_steps(om, covs, ns, r, dbg) ==
    LET A_all == cost_A(om, covs, ns)
        first ==
            Flatten([k \in 1..Len(om) |->
                <<Step("", Invertible(om[k]), "LinAlgError"),
                  Check("omega_inv_spd", Invertible(om[k]) => is_spd(Inv(om[k])))>>
                \o (IF dbg
                    THEN <<Check("A_symmetric",
                                 (\A t \in 1..Len(om) : Invertible(om[t])) =>
                                     LET A == A_all[k]
                                     IN  \A i \in 1..Len(A) : \A j \in 1..Len(A) :
                                            A[i][j] = A[j][i])>>
                    ELSE <<>>)])
        second ==
            IF dbg /\ Raised(first) = "none"
            THEN LET B == cost_B(cost_project(A_all, r), covs, ns)
                 IN  [k \in 1..Len(om) |-> Check("B_spd", is_spd(B[k]))]
            ELSE <<>>
    IN  first \o second

\* The values the duality gap is drawn from.  The gap is a difference of
\* log-determinants of the current estimate; the driver only compares it with
\* tol and stores it, so the model draws it from two values instead of
\* computing it: 0, below every tolerance, and 1, not below the default one.
GapValues == {0, 1}

\* tol is not None and duality_gap < tol
converged(t, gap) == ~t.isNone /\ gap < t.val

\* The workspace arrays of group_sparse_covariance ("Preallocate arrays").
Buffers == {"y", "u", "y_1", "h_12", "q", "c", "W", "Winv"}

\* The tuple returned.
returned(rc, covs, om, cs) == IF rc THEN <<covs, om, cs>> ELSE <<covs, om>>

Line(kind, sweep) == [kind |-> kind, sweep |-> sweep]

\* What group_sparse_covariance prints before its loop: "restart" whenever a
\* warm start is given.
init_lines(pinit) == IF pinit.isNone THEN <<>> ELSE <<Line("restart", -1)>>

\* What it prints at the start of sweep n.
sweep_lines(v, n0) == IF v >= 1 THEN <<Line("iteration", n0)>> ELSE <<>>

\* What the cost evaluator prints (display = verbose >= 2).
cost_lines(v, n0) == IF v >= 2 THEN <<Line("cost", n0)>> ELSE <<>>

(***************************************************************************)
(* The arguments drawn in Init.                                            *)
(***************************************************************************)
Half == Rat(1, 2)

Quarter == Rat(1, 4)

\* Arguments the validation of rho is meant to reject.
BadRhos == {NonNumber("str"), NonNumber("NoneType"), Float(RNeg(Quarter)),
            NonFinite("-inf"), NonFinite("nan"), NonFinite("inf")}

\* Task arguments empirical_covariances is meant to reject.
BadTasks == {[kind |-> "scalar", items |-> <<>>],
             List(<<>>),
             [kind |-> "iterator", items |-> <<XA>>],
             [kind |-> "iterator", items |-> <<XA, X3>>],
             List(<<XA, X3>>)}

\* Warm starts for n_var = 2 and d tasks: symmetric, not symmetric.
SymStack(d) == Band(2, d, RInt(2), Half, Half)

AsymStack(d) == Band(2, d, RInt(2), Half, Quarter)

\* Warm starts for n_var = 2 and one task: negative definite, and positive
\* definite with a first diagonal entry below the second.
NegStack == DiagStack(1, RInt(-3), RInt(-3))

SkewStack == DiagStack(1, Half, RInt(3))

\* The (tasks, rho, precisions_init) triples.  rho_max is 3/2 for <<XA>>, 1/2
\* for <<XZ, XA>>, 3/4 for the four tasks, 3/2 for <<X3>> and below 1 for
\* <<XA, XB>>.
Cases ==
    \* one task
    ({List(<<XA>>)}
        \X (BadRhos \cup {Float(RZero), Float(Half), Float(Rat(3, 2)), Float(RInt(2))})
        \X {NoInit})
    \cup
    \* one task, warm starts: of the right shape, with a task too many, with
    \* a feature too many, not positive definite, positive definite
    ({List(<<XA>>)} \X {Float(Half)}
        \X {Stack(SymStack(1)), Stack(AsymStack(1)),
            Stack(SymStack(2)), Stack(Band(3, 1, RInt(2), Half, Half)),
            Stack(NegStack), Stack(SkewStack)})
    \cup
    \* two tasks with different sample counts, one with uncorrelated features
    ({List(<<XZ, XA>>)} \X {Float(Rat(1, 6)), Float(Half)} \X {NoInit})
    \cup
    ({List(<<XZ, XA>>)} \X {Float(Rat(1, 6))} \X {Stack(SymStack(2))})
    \cup
    \* four tasks with one covariance and one sample count
    ({List(<<XA, XC, XN, XA>>)} \X {Float(Quarter), Float(Rat(3, 4))} \X {NoInit})
    \cup
    ({List(<<XA, XC, XN, XA>>)} \X {Float(Quarter)} \X {Stack(SymStack(4))})
    \cup
    ({List(<<XA, XC, XN, XA>>)} \X {Float(Rat(3, 4))} \X {Stack(Ramp(2, 4))})
    \cup
    \* one task with three features
    ({List(<<X3>>)} \X {Float(Half), Float(RInt(2))} \X {NoInit})
    \cup
    \* two different tasks, rho above rho_max
    ({List(<<XA, XB>>)} \X {Float(ROne), Float(RInt(2))} \X {NoInit})
    \cup
    (BadTasks \X {Float(Half)} \X {NoInit})

Verbosities == {0, 1, 2}

\* The default of tol, 1e-4: the smallest positive threshold of the gap
\* scale.  The path driver does not pass tol, so its calls have this one.
DefaultTol == [isNone |-> FALSE, val |-> 1]

\* tol: None or the default.
Tols == {[isNone |-> TRUE, val |-> 0], DefaultTol}

\* (verbose, debug): every verbosity without debug, and debug on a silent
\* call; no check of debug reads verbose.
Modes == (Verbosities \X {FALSE}) \cup ({0} \X {TRUE})

\* A call of group_sparse_covariance that no path driver has made.
NoPath ==
    /\ path_pc = "off" /\ path_err = "none"
    /\ train_tasks = List(<<>>) /\ test_tasks = List(<<>>) /\ rhos = <<>>
    /\ test_covs = <<>> /\ path_n_samples = <<>>
    /\ scores = <<>> /\ path_precisions_init = NoInit
    /\ calls = <<>> /\ path_ret = <<>>

Init ==
    /\ NoPath
    /\ \E cs \in Cases :
          /\ tasks = cs[1]
          /\ rho = cs[2]
          /\ precisions_init = cs[3]
    /\ max_iter \in 0..MaxIter
    /\ tol \in Tols
    /\ \E md \in Modes : verbose = md[1] /\ debug = md[2]
    /\ return_costs \in BOOLEAN
    /\ pc = "start"
    /\ err = "none"
    /\ emp_covs = <<>> /\ n_samples = <<>> /\ n_tasks = -1 /\ n_var = -1
    /\ omega = <<>> /\ W = <<>> /\ Winv = <<>> /\ y = <<>> /\ u = <<>>
    /\ remainder = RZero
    /\ n = 0 /\ p = 0 /\ m = 0
    /\ costs = <<>> /\ duality_gap = -1 /\ out = <<>> /\ ret = <<>>
    /\ n_steps = 0 /\ n_evals = 0 /\ n_newton = 0 /\ n_sweeps = 0
    /\ checked = {}
    /\ allocs = [b \in Buffers |-> 0]

\* An exception leaves the function: the local arrays die with the frame, and
\* the model leaves them as they were before the step.
Raise(e) == pc' = "error" /\ err' = e

(***************************************************************************)
(* The steps of group_sparse_covariance.                                   *)
(***************************************************************************)
\* if not isinstance(rho, (int, float)) or rho < 0: raise ValueError
ValidateRho ==
    /\ pc = "start"
    /\ IF RhoRejected(rho)
       THEN Raise("ValueError")
       ELSE pc' = "covs" /\ err' = err
    /\ UNCHANGED <<path, inputs, built, work, loop, report, counters, audit>>

\* emp_covs, n_samples, n_tasks, n_var = empirical_covariances(tasks, ...)
BuildCovariances ==
    /\ pc = "covs"
    /\ LET r == empirical_covariances(tasks, debug)
       IN  /\ checked' = checked \cup r.checks
           /\ IF r.err # "none"
              THEN Raise(r.err) /\ UNCHANGED built
              ELSE /\ pc' = "init" /\ err' = err
                   /\ emp_covs' = r.emp_covs
                   /\ n_samples' = r.n_samples
                   /\ n_tasks' = r.n_tasks
                   /\ n_var' = r.n_var
    /\ UNCHANGED <<path, inputs, work, loop, report, counters, allocs>>

\* The initialisation of omega (default or a copy of precisions_init, which
\* prints "restart"), the allocation of the workspace arrays and costs = [].
InitOmega ==
    /\ pc = "init"
    /\ omega' = IF precisions_init.isNone THEN default_omega(emp_covs)
                ELSE precisions_init.stack
    /\ out' = out \o init_lines(precisions_init)
    /\ allocs' = [b \in Buffers |-> allocs[b] + 1]
    /\ pc' = "loop"
    /\ UNCHANGED <<path, inputs, err, built, W, Winv, y, u, remainder, loop,
                   costs, duality_gap, ret, counters, checked>>

\* for n in xrange(max_iter): the start of sweep n, or the end of the loop.
SweepStart ==
    /\ pc = "loop"
    /\ IF n < max_iter
       THEN /\ out' = out \o sweep_lines(verbose, n)
            /\ p' = 0
            /\ pc' = "maintain"
       ELSE /\ pc' = "return"
            /\ UNCHANGED <<out, p>>
    /\ UNCHANGED <<path, inputs, err, built, work, n, m, costs, duality_gap, ret,
                   counters, audit>>

\* The submatrix step for excluded index p.  At p = 0, W is bound to a copy
\* of omega without row and column 0 and Winv to a new array that receives
\* the inverses; at p > 0, update_submatrix changes W and Winv in place.
Maintain ==
    /\ pc = "maintain"
    /\ n_steps' = n_steps + 1
    /\ IF p = 0
       THEN LET w == Eval([k \in 1..Len(omega) |-> Minor(omega[k], 1, 1)])
                steps == reset_steps(omega, w, debug)
            IN  /\ allocs' = [allocs EXCEPT !["W"] = @ + 1, !["Winv"] = @ + 1]
                /\ checked' = checked \cup Evaluated(steps)
                /\ IF Raised(steps) # "none"
                   THEN Raise(Raised(steps)) /\ UNCHANGED <<W, Winv>>
                   ELSE /\ W' = w
                        /\ Winv' = [k \in 1..Len(w) |-> Inv(w[k])]
                        /\ pc' = "extract" /\ err' = err
       ELSE LET r == Eval([k \in 1..n_tasks |->
                             update_submatrix(omega[k], W[k], Winv[k], p)])
                steps == advance_steps(omega, omega, r, p, debug)
            IN  /\ allocs' = allocs
                /\ checked' = checked \cup Evaluated(steps)
                /\ IF Raised(steps) # "none"
                   THEN Raise(Raised(steps)) /\ UNCHANGED <<W, Winv>>
                   ELSE /\ W' = [k \in 1..n_tasks |-> r[k].sub]
                        /\ Winv' = [k \in 1..n_tasks |-> r[k].sub_inv]
                        /\ pc' = "extract" /\ err' = err
    /\ UNCHANGED <<path, inputs, built, omega, y, u, remainder, loop, report,
                   n_evals, n_newton, n_sweeps>>

\* "Extract y and u": y[:, :p] = omega[:p, p, :].T ; y[:, p:] = omega[p + 1:,
\* p, :].T and the same for u from emp_covs.  y has shape (n_tasks, n_var - 1):
\* numpy raises ValueError when the slice of omega cannot be broadcast to it
\* (a slice with an axis of length 1 would be; no stack drawn in Init has one).
Extract ==
    /\ pc = "extract"
    /\ IF Len(omega) # n_tasks \/ \E k \in 1..Len(omega) : NRows(omega[k]) # n_var
       THEN Raise("ValueError") /\ UNCHANGED <<y, u, m>>
       ELSE /\ y' = [k \in 1..n_tasks |-> Drop(Column(omega[k], p + 1), p + 1)]
            /\ u' = [k \in 1..n_tasks |-> Drop(Column(emp_covs[k], p + 1), p + 1)]
            /\ m' = 0
            /\ pc' = IF n_var - 1 > 0 THEN "coord" ELSE "writeback"
            /\ err' = err
    /\ UNCHANGED <<path, inputs, built, omega, W, Winv, remainder, n, p, report,
                   counters, audit>>

\* One coordinate update (one iteration of "for m in xrange(n_var - 1)").  In
\* the Newton branch q is bound to a new array, and with debug q > 0 is
\* asserted before the call of newton and alpha >= 0 after it.
Coordinate ==
    /\ pc = "coord"
    /\ LET c == coord_c(n_samples, emp_covs, Winv, y, u, p, m)
           q == coord_q(n_samples, emp_covs, Winv, p, m)
           cc == Eval([k \in 1..n_tasks |-> RMul(c[k], c[k])])
           two_ccq == Eval([k \in 1..n_tasks |-> RMul(RInt(2), RMul(cc[k], q[k]))])
           nr == newton(q, two_ccq, cc, rho)
           x == coord_x(nr.alpha, c, q)
           next == IF m + 1 < n_var - 1 THEN "coord" ELSE "writeback"
           q_checked == IF debug THEN {"q_positive"} ELSE {}
           alpha_checked == IF debug THEN {"alpha_nonneg"} ELSE {}
       IN  IF zero_branch(c, rho)
           THEN /\ y' = [k \in 1..n_tasks |-> [y[k] EXCEPT ![m + 1] = RZero]]
                /\ m' = m + 1
                /\ pc' = next /\ err' = err
                /\ UNCHANGED <<remainder, n_newton, audit>>
           ELSE /\ allocs' = [allocs EXCEPT !["q"] = @ + 1]
                /\ IF debug /\ \E k \in 1..n_tasks : q[k][1] <= 0
                   THEN /\ Raise("AssertionError")
                        /\ checked' = checked \cup q_checked
                        /\ UNCHANGED <<y, m, remainder, n_newton>>
                   ELSE IF ~nr.ok
                   THEN /\ Raise("RuntimeError")
                        /\ checked' = checked \cup q_checked
                        /\ UNCHANGED <<y, m, remainder, n_newton>>
                   ELSE IF debug /\ nr.alpha[1] < 0
                   THEN /\ Raise("AssertionError")
                        /\ checked' = checked \cup q_checked \cup alpha_checked
                        /\ UNCHANGED <<y, m, remainder, n_newton>>
                   ELSE /\ remainder' = quad_trust_region(nr.alpha, q, cc,
                                                          RMul(rho.val, rho.val))
                        /\ y' = [k \in 1..n_tasks |-> [y[k] EXCEPT ![m + 1] = x[k]]]
                        /\ m' = m + 1
                        /\ n_newton' = n_newton + 1
                        /\ checked' = checked \cup q_checked \cup alpha_checked
                        /\ pc' = next /\ err' = err
    /\ UNCHANGED <<path, inputs, built, omega, W, Winv, u, n, p, report,
                   n_steps, n_evals, n_sweeps>>

\* "Copy back y in omega (column and row)".
WriteBack ==
    /\ pc = "writeback"
    /\ omega' = copy_back(omega, y, p)
    /\ pc' = "diagonal"
    /\ UNCHANGED <<path, inputs, err, built, W, Winv, y, u, remainder, loop, report,
                   counters, audit>>

\* The end of the excluded-index step: the diagonal entry omega[p, p, k] is
\* recomputed for every task (with debug, is_spd(omega[..., k]) is asserted
\* after each); then the next p, or the end of the sweep.
UpdateDiagonal ==
    /\ pc = "diagonal"
    /\ LET om1 == update_diagonal(omega, y, Winv, emp_covs, p)
           steps == diagonal_steps(om1, debug)
       IN  /\ checked' = checked \cup Evaluated(steps)
           /\ IF Raised(steps) # "none"
              THEN Raise(Raised(steps)) /\ UNCHANGED <<omega, p, n_sweeps>>
              ELSE /\ omega' = om1
                   /\ p' = p + 1
                   /\ err' = err
                   /\ IF p + 1 < n_var
                      THEN pc' = "maintain" /\ UNCHANGED n_sweeps
                      ELSE pc' = "cost" /\ n_sweeps' = n_sweeps + 1
    /\ UNCHANGED <<path, inputs, built, W, Winv, y, u, remainder, n, m, report,
                   n_steps, n_evals, n_newton, allocs>>

\* After the sweep: the cost evaluation when wanted, the cost trace, and the
\* convergence test.
CostCheck ==
    /\ pc = "cost"
    /\ IF costs_wanted(return_costs, tol)
       THEN LET steps == cost_steps(omega, emp_covs, n_samples, rho, debug)
            IN  /\ n_evals' = n_evals + 1
                /\ checked' = checked \cup Evaluated(steps)
                /\ IF Raised(steps) # "none"
                   THEN /\ Raise(Raised(steps))
                        /\ UNCHANGED <<n, costs, duality_gap, out>>
                   ELSE \E gap \in GapValues :
                           /\ duality_gap' = gap
                           /\ out' = out \o cost_lines(verbose, n)
                           /\ costs' = IF return_costs
                                       THEN Append(costs, [sweep |-> n, gap |-> gap])
                                       ELSE costs
                           /\ IF converged(tol, gap)
                              THEN pc' = "return" /\ n' = n
                              ELSE pc' = "loop" /\ n' = n + 1
                           /\ err' = err
       ELSE /\ pc' = "loop" /\ n' = n + 1 /\ err' = err
            /\ UNCHANGED <<costs, duality_gap, out, n_evals, checked>>
    /\ UNCHANGED <<path, inputs, built, work, p, m, ret, n_steps, n_newton, n_sweeps,
                   allocs>>

\* return emp_covs, omega[, costs]
Return ==
    /\ pc = "return"
    /\ ret' = returned(return_costs, emp_covs, omega, costs)
    /\ pc' = "done"
    /\ UNCHANGED <<path, inputs, err, built, work, loop, costs, duality_gap, out,
                   counters, audit>>

Next ==
    \/ ValidateRho
    \/ BuildCovariances
    \/ InitOmega
    \/ SweepStart
    \/ Maintain
    \/ Extract
    \/ Coordinate
    \/ WriteBack
    \/ UpdateDiagonal
    \/ CostCheck
    \/ Return

Spec == Init /\ [][Next]_vars

(***************************************************************************)
(* group_sparse_covariance_path: one call of group_sparse_covariance per   *)
(* value of rhos, each warm-started from the one before, and one score per *)
(* value.                                                                  *)
(***************************************************************************)
\* Without reversed(...): the sequence as it is.
Reverse_as_given(s) == s

\* reversed(...)
Reverse(s) == [i \in 1..Len(s) |-> s[Len(s) + 1 - i]]

\* sklearn.covariance.log_likelihood(emp_cov, precision):
\* (-sum(emp_cov * precision) + logdet(precision) - p log(2 pi)) / 2.  The
\* logarithm is left unevaluated: the value is given by the sum, the
\* determinant whose logarithm is taken, and p.
log_likelihood(emp_cov, precision) ==
    [sum |-> RSum([i \in 1..Len(emp_cov) |->
                     RSum([j \in 1..Len(emp_cov[i]) |->
                             RMul(emp_cov[i][j], precision[i][j])])]),
     logdet_of |-> Det(precision),
     p |-> Len(precision)]

\* n_samples[k] * log_likelihood(test_covs[..., k], precisions[..., k]) for
\* each k, the terms of sum(task_score).
task_score(ns, covs, precisions) ==
    Eval([k \in 1..Len(precisions) |->
            [weight |-> ns[k], ll |-> log_likelihood(covs[k], precisions[k])]])

\* (train_tasks, test_tasks, rhos) with rhos in descending order.  rho_max is
\* 3/2 for <<XA>> and 1/2 for <<XZ, XA>>.
PathCases ==
    ({List(<<XA>>)} \X {List(<<XC>>)}
        \X {<<Float(Half)>>,
            <<Float(Rat(3, 2)), Float(Half)>>,
            <<Float(RInt(2)), Float(Half)>>,
            <<Float(RInt(2)), Float(Rat(3, 2))>>,
            <<Float(RInt(2)), Float(Rat(3, 2)), Float(Half)>>,
            <<Float(Half), Float(RZero)>>})
    \cup
    ({List(<<XZ, XA>>)} \X {List(<<XA, XZ>>)}
        \X {<<Float(Half), Float(Rat(1, 6))>>})

PathInit ==
    /\ \E cs \in PathCases :
          /\ train_tasks = cs[1]
          /\ test_tasks = cs[2]
          /\ rhos = cs[3]
    /\ max_iter \in 0..MaxIter
    /\ verbose \in Verbosities
    /\ debug \in BOOLEAN
    /\ path_pc = "start" /\ path_err = "none"
    /\ test_covs = <<>> /\ path_n_samples = <<>>
    /\ scores = <<>> /\ path_precisions_init = NoInit
    /\ calls = <<>> /\ path_ret = <<>>
    \* no call of the solver yet
    /\ tasks = List(<<>>) /\ rho = Float(RZero) /\ tol = DefaultTol
    /\ return_costs = FALSE /\ precisions_init = NoInit
    /\ pc = "idle"
    /\ err = "none"
    /\ emp_covs = <<>> /\ n_samples = <<>> /\ n_tasks = -1 /\ n_var = -1
    /\ omega = <<>> /\ W = <<>> /\ Winv = <<>> /\ y = <<>> /\ u = <<>>
    /\ remainder = RZero
    /\ n = 0 /\ p = 0 /\ m = 0
    /\ costs = <<>> /\ duality_gap = -1 /\ out = <<>> /\ ret = <<>>
    /\ n_steps = 0 /\ n_evals = 0 /\ n_newton = 0 /\ n_sweeps = 0
    /\ checked = {}
    /\ allocs = [b \in Buffers |-> 0]

\* test_covs, _, _, _ = empirical_covariances(test_tasks, ...);
\* n_samples = [task.shape[0] for task in train_tasks]; n_samples /= sum;
\* scores = []; precisions_init = None
PathStart ==
    /\ path_pc = "start"
    /\ LET r == empirical_covariances(test_tasks, debug)
           rows == [k \in 1..Len(train_tasks.items) |->
                      RInt(NRows(train_tasks.items[k]))]
       IN  IF r.err # "none"
           THEN /\ path_pc' = "error" /\ path_err' = r.err
                /\ UNCHANGED <<test_covs, path_n_samples>>
           ELSE /\ path_pc' = "loop" /\ path_err' = path_err
                /\ test_covs' = r.emp_covs
                /\ path_n_samples' =
                       [k \in 1..Len(rows) |-> RDiv(rows[k], RSum(rows))]
    /\ UNCHANGED <<inputs, pc, err, built, work, loop, report, counters,
                   audit, train_tasks, test_tasks, rhos, scores,
                   path_precisions_init, calls, path_ret>>

\* for rho in reversed(rhos): group_sparse_covariance(train_tasks, rho,
\* max_iter=max_iter, ..., return_costs=False, debug=debug,
\* precisions_init=precisions_init)
PathCall ==
    /\ path_pc = "loop"
    /\ Len(scores) < Len(rhos)
    /\ path_pc' = "call"
    /\ tasks' = train_tasks
    /\ rho' = Reverse(rhos)[Len(scores) + 1]
    /\ tol' = DefaultTol
    /\ return_costs' = FALSE
    /\ precisions_init' = path_precisions_init
    /\ pc' = "start"
    /\ err' = "none"
    /\ emp_covs' = <<>> /\ n_samples' = <<>> /\ n_tasks' = -1 /\ n_var' = -1
    /\ omega' = <<>> /\ W' = <<>> /\ Winv' = <<>> /\ y' = <<>> /\ u' = <<>>
    /\ remainder' = RZero
    /\ n' = 0 /\ p' = 0 /\ m' = 0
    /\ costs' = <<>> /\ duality_gap' = -1 /\ out' = <<>> /\ ret' = <<>>
    /\ n_steps' = 0 /\ n_evals' = 0 /\ n_newton' = 0 /\ n_sweeps' = 0
    /\ checked' = {}
    /\ allocs' = [b \in Buffers |-> 0]
    /\ calls' = Append(calls, [rho |-> rho',
                               precisions_init |-> precisions_init',
                               returned |-> FALSE,
                               precisions |-> <<>>,
                               score |-> <<>>])
    /\ UNCHANGED <<max_iter, verbose, debug, train_tasks, test_tasks, rhos,
                   path_err, test_covs, path_n_samples, scores,
                   path_precisions_init, path_ret>>

\* _, precisions = ...; task_score.append(...) for k in
\* range(precisions.shape[2]); scores.append(sum(task_score));
\* precisions_init = precisions
PathScore ==
    /\ path_pc = "call"
    /\ pc = "done"
    /\ LET precisions == ret[2]
       IN  IF Len(precisions) > Len(test_covs)
           THEN /\ path_pc' = "error" /\ path_err' = "IndexError"
                /\ UNCHANGED <<scores, path_precisions_init, calls>>
           ELSE LET score == task_score(path_n_samples, test_covs, precisions)
                IN  /\ scores' = Append(scores, score)
                    /\ path_precisions_init' = Stack(precisions)
                    /\ calls' = [calls EXCEPT ![Len(calls)] =
                                    [@ EXCEPT !.returned = TRUE,
                                              !.precisions = precisions,
                                              !.score = score]]
                    /\ path_pc' = "loop" /\ path_err' = path_err
    /\ UNCHANGED <<inputs, pc, err, built, work, loop, report, counters,
                   audit, train_tasks, test_tasks, rhos, test_covs,
                   path_n_samples, path_ret>>

\* An exception of the solver leaves the path driver as well.
PathRaise ==
    /\ path_pc = "call"
    /\ pc = "error"
    /\ path_pc' = "error"
    /\ path_err' = err
    /\ UNCHANGED <<inputs, pc, err, built, work, loop, report, counters,
                   audit, train_tasks, test_tasks, rhos, test_covs,
                   path_n_samples, scores, path_precisions_init, calls,
                   path_ret>>

\* return [s for s in reversed(scores)]
PathReturn ==
    /\ path_pc = "loop"
    /\ Len(scores) = Len(rhos)
    /\ path_ret' = Reverse(scores)
    /\ path_pc' = "done"
    /\ UNCHANGED <<inputs, pc, err, built, work, loop, report, counters,
                   audit, train_tasks, test_tasks, rhos, path_err, test_covs,
                   path_n_samples, scores, path_precisions_init, calls>>

PathNext ==
    \/ PathStart
    \/ PathCall
    \/ ValidateRho
    \/ BuildCovariances
    \/ InitOmega
    \/ SweepStart
    \/ Maintain
    \/ Extract
    \/ Coordinate
    \/ WriteBack
    \/ UpdateDiagonal
    \/ CostCheck
    \/ Return
    \/ PathScore
    \/ PathRaise
    \/ PathReturn

PathSpec == PathInit /\ [][PathNext]_vars

(***************************************************************************)
(* Predicates on the arguments and on the state used by the properties.     *)
(***************************************************************************)
\* rho is a finite non-negative number.
RhoFiniteNonNeg == rho.type \in {"int", "float"} /\ rho.kind = "fin" /\ rho.val[1] >= 0

\* tasks is a finite non-empty sequence of matrices with one feature count.
TasksWellFormed ==
    /\ tasks.kind = "list"
    /\ Len(tasks.items) > 0
    /\ \A k \in 1..Len(tasks.items) : NCols(tasks.items[k]) = NCols(tasks.items[1])

\* A warm start is given and, the covariances being built, its shape is not
\* n_var x n_var x n_tasks.
WarmStartMisshaped ==
    /\ ~precisions_init.isNone
    /\ n_tasks >= 0
    /\ \/ Len(precisions_init.stack) # n_tasks
       \/ \E k \in 1..Len(precisions_init.stack) :
             \/ NRows(precisions_init.stack[k]) # n_var
             \/ NCols(precisions_init.stack[k]) # n_var

\* The arguments are valid: rho, the tasks and the shape of the warm start.
ValidCall ==
    /\ RhoFiniteNonNeg
    /\ TasksWellFormed
    /\ ~(tasks.kind = "list" /\ Len(tasks.items) > 0 /\ ~precisions_init.isNone
         /\ \/ Len(precisions_init.stack) # Len(tasks.items)
            \/ \E k \in 1..Len(precisions_init.stack) :
                  \/ NRows(precisions_init.stack[k]) # NCols(tasks.items[1])
                  \/ NCols(precisions_init.stack[k]) # NCols(tasks.items[1]))

Symmetric(M) == \A i \in 1..Len(M) : \A j \in 1..Len(M[i]) : M[i][j] = M[j][i]

\* The call is between two excluded-index steps, at least one being done, or
\* has returned.
BetweenSteps == n_steps >= 1 /\ pc \in {"maintain", "cost", "loop", "return", "done"}

\* M is symmetric with positive leading principal minors (Sylvester).
PositiveDefinite(M) ==
    /\ Symmetric(M)
    /\ \A s \in 1..Len(M) :
          Det([i \in 1..s |-> [j \in 1..s |-> M[i][j]]])[1] > 0

\* The warm start, if one is given, is a stack of symmetric positive definite
\* matrices.
WarmStartSPD ==
    \A k \in 1..Len(precisions_init.stack) : PositiveDefinite(precisions_init.stack[k])

\* The call is inside an excluded-index step, between the copy of y into
\* omega and the update of the diagonal entry.
MidStep == pc = "diagonal"

\* The sweeps whose end-of-sweep check has run.
SweepsChecked == IF pc = "cost" THEN n_sweeps - 1 ELSE n_sweeps

\* All tasks have one empirical covariance and one sample weight.
IdenticalTasks ==
    /\ emp_covs # <<>>
    /\ \A k \in 1..n_tasks : emp_covs[k] = emp_covs[1] /\ n_samples[k] = n_samples[1]

\* rho >= rho_max(emp_covs, n_samples), compared by squares.
RhoAtLeastMax ==
    /\ emp_covs # <<>>
    /\ \/ rho.kind = "inf"
       \/ /\ rho.kind = "fin" /\ rho.val[1] >= 0
          /\ RLe(rho_max_sq(emp_covs, n_samples), RMul(rho.val, rho.val))

(***************************************************************************)
(* C1.  group_sparse_covariance raises ValueError whenever rho is not a    *)
(* finite non-negative number, before anything is computed: no empirical   *)
(* covariance is built and no sweep step runs.  (Violated: nan and inf     *)
(* pass the test of rho.)                                                  *)
(***************************************************************************)
C1_BadRhoRejected ==
    ~RhoFiniteNonNeg =>
        /\ pc = "start" \/ (pc = "error" /\ err = "ValueError")
        /\ emp_covs = <<>>
        /\ n_steps = 0

(***************************************************************************)
(* C2.  empirical_covariances raises ValueError for every tasks argument   *)
(* that is not a finite non-empty sequence of matrices with one feature    *)
(* count.  (Violated: an empty list raises IndexError, an iterator         *)
(* without a length TypeError.)                                            *)
(***************************************************************************)
C2_BadTasksRejected ==
    (~TasksWellFormed /\ pc \notin {"start", "covs"}) =>
        (pc = "error" /\ err = "ValueError" /\ emp_covs = <<>>)

(***************************************************************************)
(* C3.  With a warm start whose shape is not n_var x n_var x n_tasks no    *)
(* sweep step ever runs.  (Violated: the shape is never tested, and the    *)
(* first submatrix step runs on the mis-shaped stack.)                     *)
(***************************************************************************)
C3_MisshapedNeverSwept == WarmStartMisshaped => (n_steps = 0 /\ W = <<>>)

(***************************************************************************)
(* C4.  For valid arguments the call raises nothing, completes every sweep *)
(* it starts and at most max_iter of them, starts no sweep after one whose *)
(* gap was below tol, and returns either after max_iter sweeps or after a  *)
(* sweep whose gap was below tol (with tol = None, after exactly max_iter  *)
(* sweeps).  (Violated: with rho = 0 the Newton iteration has no root and  *)
(* raises RuntimeError in the middle of the first sweep.)                  *)
(***************************************************************************)
C4_SweepsAndTermination ==
    ValidCall =>
        /\ pc # "error"
        /\ n_sweeps <= max_iter
        /\ (n_evals > 0 /\ ~tol.isNone /\ duality_gap < tol.val)
              => pc \in {"return", "done"}
        /\ pc = "done" =>
              /\ Len(ret) >= 2
              /\ n_steps = n_sweeps * n_var
              /\ \/ n_sweeps = max_iter
                 \/ ~tol.isNone /\ duality_gap < tol.val
              /\ tol.isNone => n_sweeps = max_iter

(***************************************************************************)
(* C5.  The cost trace is returned exactly when return_costs is set; it    *)
(* holds one pair per completed sweep, in sweep order, and its last pair   *)
(* is the gap last compared with tol; the cost evaluator runs once after   *)
(* each sweep when return_costs is set or tol is not None, and never       *)
(* otherwise.                                                              *)
(***************************************************************************)
C5_CostTrace ==
    /\ pc = "done" => /\ Len(ret) = IF return_costs THEN 3 ELSE 2
                      /\ return_costs => ret[3] = costs
                      /\ Len(costs) = IF return_costs THEN n_sweeps ELSE 0
    /\ err # "AssertionError" =>
          Len(costs) = IF return_costs THEN SweepsChecked ELSE 0
    /\ \A i \in 1..Len(costs) : costs[i].sweep = i - 1
    /\ costs # <<>> => costs[Len(costs)].gap = duality_gap
    /\ n_evals = IF return_costs \/ ~tol.isNone THEN SweepsChecked ELSE 0

\* A call that returned a trace of one pair after stopping early.
C5_Witness ==
    /\ pc = "done" /\ return_costs /\ Len(ret) = 3
    /\ Len(costs) = 1 /\ max_iter = 2 /\ n_evals = 1

(***************************************************************************)
(* C6 as stated.  For valid arguments, any warm start included, every      *)
(* task's precision matrix is symmetric at every point of the run.         *)
(* (Violated by a warm start that is not symmetric.)                       *)
(***************************************************************************)
C6_SymmetricAnyWarmStart ==
    (ValidCall /\ omega # <<>>) => \A k \in 1..Len(omega) : Symmetric(omega[k])

(***************************************************************************)
(* C6 amended.  When no warm start is given, or the warm start is          *)
(* symmetric, every task's precision matrix is symmetric at every point of *)
(* the run and in the returned value.                                      *)
(***************************************************************************)
C6_SymmetricFromSymmetric ==
    (/\ omega # <<>>
     /\ \A k \in 1..Len(precisions_init.stack) : Symmetric(precisions_init.stack[k]))
        => \A k \in 1..Len(omega) : Symmetric(omega[k])

\* A warm-started call that returned a matrix with a non-zero off-diagonal
\* entry written by the Newton branch.
C6_Witness ==
    /\ pc = "done" /\ ~precisions_init.isNone /\ n_newton > 0 /\ n_sweeps = 2
    /\ omega[1][1][2] # RZero
    /\ omega # precisions_init.stack

(***************************************************************************)
(* C7.  The returned precision matrices share one sparsity pattern: each   *)
(* off-diagonal entry is zero for all tasks or for none.  (Violated: a     *)
(* task whose own c is zero gets a zero entry in the Newton branch while   *)
(* the other tasks get non-zero ones.)                                     *)
(***************************************************************************)
C7_SharedPattern ==
    (ValidCall /\ precisions_init.isNone /\ pc = "done") =>
        \A i \in 1..n_var : \A j \in 1..n_var :
            i # j => \/ \A k \in 1..n_tasks : omega[k][i][j] = RZero
                     \/ \A k \in 1..n_tasks : omega[k][i][j] # RZero

(***************************************************************************)
(* C8.  With the default initialisation and rho >= rho_max every           *)
(* coordinate update takes the zero branch, and every precision matrix is  *)
(* diagonal with omega[p, p, k] = 1 / emp_covs[p, p, k] throughout.        *)
(***************************************************************************)
C8_DiagonalAboveRhoMax ==
    (precisions_init.isNone /\ omega # <<>>) =>
        \/ /\ n_newton = 0
           /\ \A k \in 1..n_tasks : \A i \in 1..n_var : \A j \in 1..n_var :
                 omega[k][i][j] =
                     IF i = j THEN RInv(emp_covs[k][i][i]) ELSE RZero
        \/ ~RhoAtLeastMax

\* A call of several tasks with rho equal to rho_max that returned after two
\* sweeps.
C8_Witness ==
    /\ pc = "done" /\ precisions_init.isNone /\ n_sweeps = 2 /\ n_tasks > 1
    /\ RhoAtLeastMax /\ rho.kind = "fin"
    /\ RMul(rho.val, rho.val) = rho_max_sq(emp_covs, n_samples)

(***************************************************************************)
(* C9.  With verbose = 0 nothing is printed.  (Violated: "restart" is      *)
(* printed whenever a warm start is given.)                                *)
(***************************************************************************)
C9_SilentAtVerboseZero == verbose = 0 => out = <<>>

(***************************************************************************)
(* C10 as stated.  When all tasks have one empirical covariance and one    *)
(* sample count, the precision matrices are the same for all tasks after   *)
(* every excluded-index step and in the returned value.  (Violated by a    *)
(* warm start that differs between the tasks.)                             *)
(***************************************************************************)
C10_IdenticalTasksIdenticalOmega ==
    (ValidCall /\ IdenticalTasks /\ BetweenSteps) =>
        \A k \in 1..Len(omega) : omega[k] = omega[1]

(***************************************************************************)
(* C10 amended.  When all tasks have one empirical covariance and one      *)
(* sample count and the warm start, if one is given, is the same for all   *)
(* tasks, the precision matrices are the same for all tasks after every    *)
(* excluded-index step and in the returned value.                          *)
(***************************************************************************)
C10_IdenticalFromIdentical ==
    (/\ IdenticalTasks /\ BetweenSteps
     /\ \A k \in 1..Len(precisions_init.stack) :
           precisions_init.stack[k] = precisions_init.stack[1])
        => \A k \in 1..Len(omega) : omega[k] = omega[1]

\* Four tasks with different samples and one covariance, returned with a
\* non-zero off-diagonal entry.
C10_Witness ==
    /\ pc = "done" /\ n_tasks = 4 /\ IdenticalTasks /\ n_newton > 0
    /\ tasks.items[1] # tasks.items[2]
    /\ omega[1][1][2] # RZero

(***************************************************************************)
(* C11 as stated.  For valid arguments, any warm start included, every     *)
(* task's precision matrix is positive definite at every point of the run  *)
(* and in the returned value.  (Violated by a warm start that is not       *)
(* positive definite, which is also what a call with max_iter = 0 returns.)*)
(***************************************************************************)
C11_PositiveDefiniteAlways ==
    (ValidCall /\ omega # <<>>) => \A k \in 1..Len(omega) : PositiveDefinite(omega[k])

(***************************************************************************)
(* C11 amended.  When no warm start is given, or the warm start is         *)
(* symmetric positive definite, every task's precision matrix is positive  *)
(* definite before the first excluded-index step, after every              *)
(* excluded-index step (once its diagonal entry is recomputed) and in the  *)
(* returned value.                                                         *)
(***************************************************************************)
C11_PositiveDefiniteBetweenSteps ==
    (omega # <<>> /\ ~MidStep /\ WarmStartSPD)
        => \A k \in 1..Len(omega) : PositiveDefinite(omega[k])

\* A call of three features that returned, after two sweeps, matrices with a
\* non-zero off-diagonal entry written by the Newton branch.
C11_Witness ==
    /\ pc = "done" /\ n_var = 3 /\ n_sweeps = 2 /\ n_newton > 0
    /\ \E i \in 1..3 : \E j \in 1..3 : i # j /\ omega[1][i][j] # RZero
    /\ PositiveDefinite(omega[1])

(***************************************************************************)
(* C12.  The submatrix step leaves omega unchanged and leaves, for every   *)
(* task, W equal to omega without row p and column p, so that this holds   *)
(* when the coordinate updates for p begin and until the step ends; at     *)
(* p > 0 the step (update_submatrix) rewrites only row p - 1 and column    *)
(* p - 1 of W.                                                             *)
(***************************************************************************)
C12_SubmatrixTracksOmega ==
    [][/\ pc = "maintain" => omega' = omega
       /\ pc' \in {"extract", "coord", "writeback", "diagonal"} =>
             /\ Len(W') = Len(omega')
             /\ \A k \in 1..Len(omega') : W'[k] = Minor(omega'[k], p' + 1, p' + 1)
       /\ (pc = "maintain" /\ p > 0 /\ pc' = "extract") =>
             \A k \in 1..n_tasks : \A i \in 1..(n_var - 1) : \A j \in 1..(n_var - 1) :
                (i # p /\ j # p) => W'[k][i][j] = W[k][i][j]]_vars

\* The coordinate updates for the last of three features are about to begin
\* in the second sweep: update_submatrix has run twice in this sweep, and W
\* holds a non-zero off-diagonal entry of omega.
C12_Witness ==
    /\ pc = "extract" /\ n_var = 3 /\ p = 2 /\ n = 1
    /\ W[1] = Minor(omega[1], 3, 3)
    /\ W[1][1][2] # RZero

(***************************************************************************)
(* C13.  In a call with debug = False no internal check is evaluated at    *)
(* any step, the cost evaluation included, and none ends the call.         *)
(* (Violated: "assert is_spd(omega_inv)" in the cost evaluation is outside *)
(* the tests of debug; it is evaluated after every sweep that computes the *)
(* costs, and it ends the call when the estimate is not positive           *)
(* definite.)                                                              *)
(***************************************************************************)
C13_ChecksOnlyInDebug ==
    ~debug => (checked = {} /\ err # "AssertionError")

(***************************************************************************)
(* C14.  Every workspace array is allocated once, before the first sweep,  *)
(* and never replaced: from the start of the loop on, each workspace name  *)
(* has been bound to exactly one array.  (Violated: W and Winv are bound   *)
(* to new arrays at p = 0 of every sweep, and q in every coordinate update *)
(* that takes the Newton branch.)                                          *)
(***************************************************************************)
C14_BuffersAllocatedOnce ==
    /\ \A b \in Buffers : allocs[b] <= 1
    /\ pc \in {"loop", "maintain", "extract", "coord", "writeback", "diagonal",
               "cost", "return", "done"} => \A b \in Buffers : allocs[b] = 1

\* The calls made so far are chained: the first starts from the default
\* initialisation, each later one from the precisions the one before
\* returned; the call in progress has the recorded arguments.
PathChained ==
    /\ \A j \in 1..Len(calls) :
          /\ calls[j].precisions_init =
                 IF j = 1 THEN NoInit ELSE Stack(calls[j - 1].precisions)
          /\ j < Len(calls) => calls[j].returned
    /\ path_pc = "call" =>
          /\ calls # <<>>
          /\ tasks = train_tasks
          /\ rho = calls[Len(calls)].rho
          /\ precisions_init = calls[Len(calls)].precisions_init
          /\ ~return_costs

\* C15 (as stated): the path driver calls the solver once per rho in the
\* supplied, descending order, the first call with the default
\* initialisation and each later call warm-started from the precisions
\* returned by the call before, and returns one score per rho, scores[i]
\* being the score of the call made with rhos[i].
C15_PathInSuppliedOrder ==
    /\ Len(calls) <= Len(rhos)
    /\ \A j \in 1..Len(calls) : calls[j].rho = rhos[j]
    /\ PathChained
    /\ path_pc = "done" =>
          /\ Len(calls) = Len(rhos)
          /\ Len(path_ret) = Len(rhos)
          /\ \A i \in 1..Len(rhos) : path_ret[i] = calls[i].score

\* C15 (amended): the path driver calls the solver at most once per rho, in
\* the reverse of the supplied order (ascending rho for a descending
\* sequence), stopping at the first call that raises; the first call has the
\* default initialisation and each later call is warm-started from the
\* precisions returned by the call before; when the driver returns, it has
\* called the solver exactly once per rho and returns one score per rho,
\* scores[i] being the score of the call made with rhos[i].
C15_PathInReverseOrder ==
    /\ Len(calls) <= Len(rhos)
    /\ \A j \in 1..Len(calls) : calls[j].rho = rhos[Len(rhos) + 1 - j]
    /\ PathChained
    /\ path_pc = "done" =>
          /\ Len(calls) = Len(rhos)
          /\ \A j \in 1..Len(calls) : calls[j].returned
          /\ Len(path_ret) = Len(rhos)
          /\ \A i \in 1..Len(rhos) :
                path_ret[i] = calls[Len(rhos) + 1 - i].score

\* A path over three values of rho has returned; the first call, with the
\* smallest rho, gave a precision matrix with a non-zero off-diagonal entry,
\* from which the second call started.
C15_Witness ==
    /\ path_pc = "done"
    /\ Len(rhos) = 3
    /\ RLt(rhos[3].val, rhos[2].val) /\ RLt(rhos[2].val, rhos[1].val)
    /\ max_iter >= 1
    /\ calls[1].rho = rhos[3]
    /\ calls[2].precisions_init = Stack(calls[1].precisions)
    /\ calls[1].precisions[1][1][2] # RZero
    /\ path_ret[1] = calls[3].score
    /\ path_ret[1] # path_ret[3]
====
